---- MODULE Spec2Model ----
(***************************************************************************)
(* A model of adb.py: the ADB class (command formatting, exec_shell, the   *)
(* timeout-bounded run(), device enumeration and the input-method session  *)
(* state).  Text is modelled as sequences of one-character strings, bytes  *)
(* as sequences of numbers 0..255.                                         *)
(***************************************************************************)
EXTENDS Integers, Sequences, FiniteSets, TLC

VARIABLES
    \* -- command formatting (ADB.__init__, ADB.cmd, ADB.shell)
    fmtArg,        \* the device_id argument of the constructor
    fmtCmd,        \* the cmd argument of cmd()/shell()
    fmtDeviceId,   \* self.device_id
    fmtLine,       \* the command line handed to exec_shell
    fmtPc,         \* "new" | "bound" | "shell" | "cmd"
    \* -- output selection (exec_shell lines 76-78, run line 400)
    oOut,          \* bytes captured from stdout
    oErr,          \* bytes captured from stderr
    oExec,         \* what exec_shell makes of them
    oRun,          \* what run makes of them
    \* -- exec_shell and its child process
    xPc,           \* "start" | "wait" | "read_out" | "read_err" | "returned" | "raised"
    xSh,           \* the shell Popen starts can be spawned
    xAdb,          \* the adb binary can be launched by that shell
    xProc,         \* "none" | "running" | "exited"
    xToOut,        \* bytes the child has still to write to stdout
    xToErr,        \* bytes the child has still to write to stderr
    xPipeOut,      \* bytes in the stdout pipe
    xPipeErr,      \* bytes in the stderr pipe
    xStdout,       \* the local stdout of exec_shell
    xResult,       \* the value returned or the error raised
    \* -- run(cmd, timeout_sec), its child process and its Timer thread
    rPc,           \* "start" | "try" | "communicate" | "finally" | "done"
    rFault,        \* where the environment makes a call of run fail
    rKind,         \* "exits": the child exits on its own; "forever": it never does
    rProc,         \* "none" | "running" | "exited" | "killed"
    rReaped,       \* proc.returncode is set
    rToOut,        \* bytes the child has still to write to stdout
    rToErr,        \* bytes the child has still to write to stderr
    rPipeOut,      \* bytes in the stdout pipe
    rPipeErr,      \* bytes in the stderr pipe
    rGotOut,       \* stdout bytes communicate() has read
    rGotErr,       \* stderr bytes communicate() has read
    rBound,        \* the locals stdout, stderr are bound
    rInflight,     \* the exception in flight when the finally block is entered
    rResult,       \* the value returned or the error raised
    tState,        \* Timer thread: "none" | "new" | "waiting" | "elapsed" | "done"
    tFinished,     \* the Timer's finished event
    tAfterExit,    \* the child had already exited when the timeout elapsed
    \* -- get_connected_device_list
    dText,         \* devices_text, what exec_shell("adb devices") returned
    dNames,        \* devices_name, the list returned
    dPc,           \* "new" | "done"
    \* -- the session (an ADB instance) and the device it talks to
    sPc,           \* position inside __init__, enable_ime, recover_ime; "ready" between calls
    sArgId,        \* the device_id argument of the constructor
    sArgDebug,     \* the debug argument of the constructor
    device_id,     \* self.device_id
    debug,         \* self.__debug
    default_ime,   \* self.default_ime
    sQueries,      \* calls of get_current_ime made by the constructor
    sOp,           \* the method whose step ran last
    sReads,        \* the fields of self that step read
    recoverLog,    \* the branch the last recover_ime took: "info" | "error"
    devIme,        \* device: secure setting default_input_method
    devEnabled,    \* device: the enabled input methods
    devInstalled,  \* device: com.android.adbkeyboard is installed
    apkLocal,      \* host: the file ADBKeyBoard.apk exists
    disturbed,     \* a command has failed or the device was changed from outside
    switched       \* enable_ime of this session has set the input method

fmtVars == <<fmtArg, fmtCmd, fmtDeviceId, fmtLine, fmtPc>>
outVars == <<oOut, oErr, oExec, oRun>>
execVars == <<xPc, xSh, xAdb, xProc, xToOut, xToErr, xPipeOut, xPipeErr, xStdout, xResult>>
runVars == <<rPc, rFault, rKind, rProc, rReaped, rToOut, rToErr, rPipeOut, rPipeErr,
             rGotOut, rGotErr, rBound, rInflight, rResult, tState, tFinished,
             tAfterExit>>
devVars == <<dText, dNames, dPc>>
sesVars == <<sPc, sArgId, sArgDebug, device_id, debug, default_ime, sQueries, sOp, sReads,
             recoverLog, devIme, devEnabled, devInstalled, apkLocal, disturbed, switched>>

vars == <<fmtVars, outVars, execVars, runVars, devVars, sesVars>>

-----------------------------------------------------------------------------
(* Bounds of the model. *)
MaxTarget == 2     \* longest device_id argument
MaxCmd == 4        \* longest cmd argument
MaxOut == 3        \* most bytes a child process writes to one stream
PipeCap == 2       \* bytes a pipe buffers before a write blocks
MaxRunOut == 1     \* most bytes the child of run() writes to one stream
MaxText == 5       \* longest output of "adb devices", in symbols

-----------------------------------------------------------------------------
(* Each specification below runs one part of the class; the variables of    *)
(* the other parts rest at these values.                                    *)

FmtIdle ==
    /\ fmtArg = <<>> /\ fmtCmd = <<>> /\ fmtDeviceId = <<>>
    /\ fmtLine = <<>> /\ fmtPc = "off"

NoResult == [kind |-> "none", value |-> <<>>, error |-> ""]
Return(v) == [kind |-> "return", value |-> v, error |-> ""]
Raise(e) == [kind |-> "raise", value |-> <<>>, error |-> e]

OutIdle ==
    /\ oOut = <<>> /\ oErr = <<>> /\ oExec = NoResult /\ oRun = NoResult

ExecIdle ==
    /\ xPc = "off" /\ xSh = TRUE /\ xAdb = TRUE /\ xProc = "none"
    /\ xToOut = <<>> /\ xToErr = <<>> /\ xPipeOut = <<>> /\ xPipeErr = <<>>
    /\ xStdout = <<>> /\ xResult = NoResult

RunIdle ==
    /\ rPc = "off" /\ rFault = "none" /\ rKind = "exits" /\ rProc = "none"
    /\ rReaped = FALSE /\ rToOut = <<>> /\ rToErr = <<>> /\ rPipeOut = <<>>
    /\ rPipeErr = <<>> /\ rGotOut = <<>> /\ rGotErr = <<>> /\ rBound = FALSE
    /\ rInflight = "none" /\ rResult = NoResult /\ tState = "none"
    /\ tFinished = FALSE /\ tAfterExit = FALSE

DevIdle == dText = <<>> /\ dNames = <<>> /\ dPc = "off"

SesIdle ==
    /\ sPc = "off" /\ sArgId = <<>> /\ sArgDebug = TRUE /\ device_id = <<>>
    /\ debug = TRUE /\ default_ime = "" /\ sQueries = 0 /\ sOp = "" /\ sReads = {}
    /\ recoverLog = "" /\ devIme = "null" /\ devEnabled = {} /\ devInstalled = FALSE
    /\ apkLocal = FALSE /\ disturbed = FALSE /\ switched = FALSE

notFmt == <<outVars, execVars, runVars, devVars, sesVars>>
notOut == <<fmtVars, execVars, runVars, devVars, sesVars>>
notExec == <<fmtVars, outVars, runVars, devVars, sesVars>>
notRun == <<fmtVars, outVars, execVars, devVars, sesVars>>
notDev == <<fmtVars, outVars, execVars, runVars, sesVars>>
notSes == <<fmtVars, outVars, execVars, runVars, devVars>>

-----------------------------------------------------------------------------
(* Text helpers. *)

\* all sequences over S of length at most n
SeqsUpTo(S, n) == UNION {[1..k -> S] : k \in 0..n}

\* s occurs in t starting at index i (1-based)
OccursAt(s, t, i) ==
    /\ i >= 1
    /\ i + Len(s) - 1 <= Len(t)
    /\ \A k \in 1..Len(s) : t[i + k - 1] = s[k]

\* the indices at which s occurs in t
Occurrences(s, t) == {i \in 1..Len(t) : OccursAt(s, t, i)}

EndsWith(t, s) == Len(s) <= Len(t) /\ OccursAt(s, t, Len(t) - Len(s) + 1)

-----------------------------------------------------------------------------
(* ADB command templates and str.format. *)

\* the characters the arguments are drawn from
ArgChars == {"-", "s", " ", "a"}

\* "adb {device_id} {cmd}"
adb_cmd == <<"a", "d", "b", " ", "{device_id}", " ", "{cmd}">>

\* "adb {device_id} shell {cmd}"
adb_shell_cmd ==
    <<"a", "d", "b", " ", "{device_id}", " ", "s", "h", "e", "l", "l", " ", "{cmd}">>

\* "-s {device_id}"
device_flag == <<"-", "s", " ", "{device_id}">>

\* str.format(**fields): every replacement field of the template is replaced
\* by the value of that name, every other character is copied
RECURSIVE Format(_, _)
Format(template, fields) ==
    IF template = <<>> THEN <<>>
    ELSE LET h == Head(template)
             piece == IF h \in DOMAIN fields THEN fields[h] ELSE <<h>>
         IN piece \o Format(Tail(template), fields)

\* ADB.__init__: self.device_id
InitDeviceId(arg) ==
    IF arg # <<>>
    THEN Format(device_flag, [x \in {"{device_id}"} |-> arg])
    ELSE <<>>

Fields(flag, cmd) ==
    [x \in {"{device_id}", "{cmd}"} |-> IF x = "{cmd}" THEN cmd ELSE flag]

\* a shell() that formats with the template of cmd()
ShellLine_m(flag, cmd) == Format(adb_cmd, Fields(flag, cmd))

\* ADB.shell: the command line it hands to exec_shell
ShellLine(flag, cmd) == Format(adb_shell_cmd, Fields(flag, cmd))

\* ADB.cmd: the command line it hands to exec_shell
CmdLine(flag, cmd) == Format(adb_cmd, Fields(flag, cmd))

-----------------------------------------------------------------------------
(* The formatting state machine. *)

FmtInit ==
    /\ fmtArg \in SeqsUpTo(ArgChars, MaxTarget)
    /\ fmtCmd \in SeqsUpTo(ArgChars, MaxCmd)
    /\ fmtDeviceId = <<>>
    /\ fmtLine = <<>>
    /\ fmtPc = "new"
    /\ OutIdle /\ ExecIdle /\ RunIdle /\ DevIdle /\ SesIdle

\* ADB.__init__, lines 25-28
BindTarget ==
    /\ fmtPc = "new"
    /\ fmtDeviceId' = InitDeviceId(fmtArg)
    /\ fmtPc' = "bound"
    /\ UNCHANGED <<fmtArg, fmtCmd, fmtLine, notFmt>>

\* ADB.shell(cmd)
ShellFormat ==
    /\ fmtPc \in {"bound", "cmd"}
    /\ fmtLine' = ShellLine(fmtDeviceId, fmtCmd)
    /\ fmtPc' = "shell"
    /\ UNCHANGED <<fmtArg, fmtCmd, fmtDeviceId, notFmt>>

\* ADB.cmd(cmd)
CmdFormat ==
    /\ fmtPc \in {"bound", "shell"}
    /\ fmtLine' = CmdLine(fmtDeviceId, fmtCmd)
    /\ fmtPc' = "cmd"
    /\ UNCHANGED <<fmtArg, fmtCmd, fmtDeviceId, notFmt>>

FmtNext == BindTarget \/ ShellFormat \/ CmdFormat

SpecFormat == FmtInit /\ [][FmtNext]_vars

-----------------------------------------------------------------------------
(* C6 *)

Adb == <<"a", "d", "b", " ">>
ShellWord == <<"s", "h", "e", "l", "l">>
TargetFlag == <<"-", "s", " ">> \o fmtArg

\* C6 as stated: with a bound target the line built by shell(cmd) holds
\* "-s t" exactly once, before "shell", and ends with cmd; with no target the
\* line is exactly "adb  shell <cmd>".
C6_AsStated ==
    fmtPc = "shell" =>
        IF fmtArg # <<>>
        THEN /\ Cardinality(Occurrences(TargetFlag, fmtLine)) = 1
             /\ \A i \in Occurrences(TargetFlag, fmtLine) :
                    \A j \in Occurrences(ShellWord, fmtLine) : i < j
             /\ EndsWith(fmtLine, fmtCmd)
        ELSE fmtLine = Adb \o <<" ">> \o ShellWord \o <<" ">> \o fmtCmd

\* C6 amended: the line built by shell(cmd) is exactly "adb " ++ flag ++
\* " shell " ++ cmd, where flag is "-s t" for a bound target t and empty
\* otherwise; "-s t" occurs at offset 4, before every "shell"; and for a
\* target without whitespace the only other occurrences of "-s t" are those
\* inside cmd itself (exactly one occurrence when cmd holds none).
C6_ShellLine ==
    fmtPc = "shell" =>
        /\ fmtLine = Adb \o (IF fmtArg # <<>> THEN TargetFlag ELSE <<>>)
                         \o <<" ">> \o ShellWord \o <<" ">> \o fmtCmd
        /\ fmtArg # <<>> =>
            /\ OccursAt(TargetFlag, fmtLine, 5)
            /\ \A j \in Occurrences(ShellWord, fmtLine) : 5 < j
            /\ (\A i \in 1..Len(fmtArg) : fmtArg[i] # " ") =>
                    Cardinality(Occurrences(TargetFlag, fmtLine))
                      = 1 + Cardinality(Occurrences(TargetFlag, fmtCmd))

\* shell() has formatted, for the bound target "a", a command that itself
\* holds "-s a": the flag occurs twice in the line
C6_Witness ==
    /\ fmtPc = "shell"
    /\ fmtArg = <<"a">>
    /\ fmtCmd = <<"-", "s", " ", "a">>
    /\ Occurrences(TargetFlag, fmtLine) = {5, 16}

-----------------------------------------------------------------------------
(* Captured bytes: bytes.strip, bytes.decode("gbk"), and the choice between *)
(* stdout and stderr.  Decoded text is a sequence of code points.           *)

\* the bytes a child process writes: space, "a", and 0xA1, the lead byte of
\* the GBK pair 0xA1 0xA1 (U+3000, the ideographic space)
Byte == {32, 97, 161}

\* what bytes.strip() removes
BytesWhitespace == {9, 10, 11, 12, 13, 32}

\* what str.strip() removes
TextWhitespace == {9, 10, 11, 12, 13, 28, 29, 30, 31, 32, 133, 160, 12288}

\* the two-byte sequences of the model the gbk codec maps
GbkPairs == [p \in {<<161, 161>>} |-> 12288]

RECURSIVE LStrip(_, _)
LStrip(s, ws) == IF s # <<>> /\ Head(s) \in ws THEN LStrip(Tail(s), ws) ELSE s

RECURSIVE RStrip(_, _)
RStrip(s, ws) ==
    IF s # <<>> /\ s[Len(s)] \in ws THEN RStrip(SubSeq(s, 1, Len(s) - 1), ws) ELSE s

Strip(s, ws) == RStrip(LStrip(s, ws), ws)

\* bytes.decode("gbk"): [ok, text]; ok is FALSE where the codec raises
\* UnicodeDecodeError (a lead byte with no mapped pair)
RECURSIVE DecodeGbk(_)
DecodeGbk(b) ==
    IF b = <<>> THEN [ok |-> TRUE, text |-> <<>>]
    ELSE IF b[1] < 128
         THEN LET rest == DecodeGbk(Tail(b))
              IN [ok |-> rest.ok, text |-> <<b[1]>> \o rest.text]
         ELSE IF Len(b) >= 2 /\ <<b[1], b[2]>> \in DOMAIN GbkPairs
              THEN LET rest == DecodeGbk(SubSeq(b, 3, Len(b)))
                   IN [ok |-> rest.ok, text |-> <<GbkPairs[<<b[1], b[2]>>]>> \o rest.text]
              ELSE [ok |-> FALSE, text |-> <<>>]

\* exec_shell lines 76 and 77: p.stdout.read().strip().decode("gbk")
DecodeStream(raw) == DecodeGbk(Strip(raw, BytesWhitespace))

\* exec_shell line 78 and run line 400: stdout if stdout else stderr
Select(stdout, stderr) == IF stdout # <<>> THEN stdout ELSE stderr

\* exec_shell lines 76-78 on the bytes of the two streams
ExecShellResult(out, err) ==
    IF ~DecodeStream(out).ok \/ ~DecodeStream(err).ok
    THEN Raise("UnicodeDecodeError")
    ELSE Return(Select(DecodeStream(out).text, DecodeStream(err).text))

\* run line 400 on the bytes communicate() returned
RunResult(out, err) == Return(Select(out, err))

OutInit ==
    /\ oOut \in SeqsUpTo(Byte, MaxOut)
    /\ oErr \in SeqsUpTo(Byte, MaxOut)
    /\ oExec = NoResult
    /\ oRun = NoResult
    /\ FmtIdle /\ ExecIdle /\ RunIdle /\ DevIdle /\ SesIdle

\* exec_shell makes its result of the captured bytes
ExecShellSelect ==
    /\ oExec = NoResult
    /\ oExec' = ExecShellResult(oOut, oErr)
    /\ UNCHANGED <<oOut, oErr, oRun, notOut>>

\* run makes its result of the captured bytes
RunSelect ==
    /\ oRun = NoResult
    /\ oRun' = RunResult(oOut, oErr)
    /\ UNCHANGED <<oOut, oErr, oExec, notOut>>

OutNext == ExecShellSelect \/ RunSelect

SpecOutput == OutInit /\ [][OutNext]_vars

-----------------------------------------------------------------------------
(* C4 *)

\* the result the claim names for captured text: stdout if it is non-empty
\* after trimming, else stderr
C4_Expected(o, e) == IF Strip(o, TextWhitespace) # <<>> THEN o ELSE e

\* C4: for every pair of captured stdout and stderr contents, exec_shell and
\* run both return the stdout content when it is non-empty after trimming and
\* the stderr content otherwise (contents compared up to trimming).
C4_AsStated ==
    LET o == DecodeGbk(oOut)
        e == DecodeGbk(oErr)
        want == Strip(C4_Expected(o.text, e.text), TextWhitespace)
    IN (o.ok /\ e.ok) =>
        /\ oExec # NoResult =>
            /\ oExec.kind = "return"
            /\ Strip(oExec.value, TextWhitespace) = want
        /\ oRun # NoResult =>
            /\ oRun.kind = "return"
            /\ Strip(DecodeGbk(oRun.value).text, TextWhitespace) = want

-----------------------------------------------------------------------------
(* exec_shell: Popen(cmd, shell=True, stdout=PIPE, stderr=PIPE), p.wait(),  *)
(* then the two reads.  The child is the shell running the command line.    *)

\* what the shell writes to stderr when it cannot launch adb ("not found")
NotFoundText == <<110, 102>>

ExecInit ==
    /\ xPc = "start"
    /\ xSh \in BOOLEAN
    /\ xAdb \in BOOLEAN
    /\ xProc = "none"
    /\ IF xAdb
       THEN xToOut \in SeqsUpTo(Byte, MaxOut) /\ xToErr \in SeqsUpTo(Byte, MaxOut)
       ELSE xToOut = <<>> /\ xToErr = NotFoundText
    /\ xPipeOut = <<>>
    /\ xPipeErr = <<>>
    /\ xStdout = <<>>
    /\ xResult = NoResult
    /\ FmtIdle /\ OutIdle /\ RunIdle /\ DevIdle /\ SesIdle

\* lines 72-74: Popen raises OSError when the shell itself cannot be spawned;
\* otherwise the shell runs, whether or not it will find adb
ExecPopen ==
    /\ xPc = "start"
    /\ IF xSh
       THEN xProc' = "running" /\ xPc' = "wait" /\ UNCHANGED xResult
       ELSE xProc' = "none" /\ xPc' = "raised" /\ xResult' = Raise("OSError")
    /\ UNCHANGED <<xSh, xAdb, xToOut, xToErr, xPipeOut, xPipeErr, xStdout, notExec>>

\* the child writes a byte to stdout; the write blocks while the pipe is full
ChildWriteOut ==
    /\ xProc = "running"
    /\ xToOut # <<>>
    /\ Len(xPipeOut) < PipeCap
    /\ xPipeOut' = Append(xPipeOut, Head(xToOut))
    /\ xToOut' = Tail(xToOut)
    /\ UNCHANGED <<xPc, xSh, xAdb, xProc, xToErr, xPipeErr, xStdout, xResult, notExec>>

\* the child writes a byte to stderr; the write blocks while the pipe is full
ChildWriteErr ==
    /\ xProc = "running"
    /\ xToErr # <<>>
    /\ Len(xPipeErr) < PipeCap
    /\ xPipeErr' = Append(xPipeErr, Head(xToErr))
    /\ xToErr' = Tail(xToErr)
    /\ UNCHANGED <<xPc, xSh, xAdb, xProc, xToOut, xPipeOut, xStdout, xResult, notExec>>

\* the child exits once it has written everything
ChildExit ==
    /\ xProc = "running"
    /\ xToOut = <<>>
    /\ xToErr = <<>>
    /\ xProc' = "exited"
    /\ UNCHANGED <<xPc, xSh, xAdb, xToOut, xToErr, xPipeOut, xPipeErr, xStdout, xResult, notExec>>

\* line 75: p.wait() returns when the child has exited; nothing reads the
\* pipes before that
ExecWait ==
    /\ xPc = "wait"
    /\ xProc = "exited"
    /\ xPc' = "read_out"
    /\ UNCHANGED <<xSh, xAdb, xProc, xToOut, xToErr, xPipeOut, xPipeErr, xStdout, xResult, notExec>>

\* line 76: stdout = p.stdout.read().strip().decode("gbk")
ExecReadOut ==
    /\ xPc = "read_out"
    /\ xPipeOut' = <<>>
    /\ IF DecodeStream(xPipeOut).ok
       THEN xStdout' = DecodeStream(xPipeOut).text /\ xPc' = "read_err"
            /\ UNCHANGED xResult
       ELSE xPc' = "raised" /\ xResult' = Raise("UnicodeDecodeError")
            /\ UNCHANGED xStdout
    /\ UNCHANGED <<xSh, xAdb, xProc, xToOut, xToErr, xPipeErr, notExec>>

\* lines 77-78: stderr = p.stderr.read().strip().decode("gbk"); return
ExecReadErr ==
    /\ xPc = "read_err"
    /\ xPipeErr' = <<>>
    /\ IF DecodeStream(xPipeErr).ok
       THEN xPc' = "returned"
            /\ xResult' = Return(Select(xStdout, DecodeStream(xPipeErr).text))
       ELSE xPc' = "raised" /\ xResult' = Raise("UnicodeDecodeError")
    /\ UNCHANGED <<xSh, xAdb, xProc, xToOut, xToErr, xPipeOut, xStdout, notExec>>

ExecCaller == ExecPopen \/ ExecWait \/ ExecReadOut \/ ExecReadErr
ExecChild == ChildWriteOut \/ ChildWriteErr \/ ChildExit

ExecNext ==
    \/ ExecPopen \/ ExecWait \/ ExecReadOut \/ ExecReadErr
    \/ ChildWriteOut \/ ChildWriteErr \/ ChildExit

SpecExec == ExecInit /\ [][ExecNext]_vars

\* the caller and the child are both scheduled
FairExec == SpecExec /\ WF_vars(ExecCaller) /\ WF_vars(ExecChild)

-----------------------------------------------------------------------------
(* C2 *)

\* C2: on the no-timeout path exec_shell eventually returns, for every child
\* that exits once its output is consumed and for every amount of output.
C2_AsStated ==
    (/\ xPc = "wait"
     /\ DecodeStream(xPipeOut \o xToOut).ok
     /\ DecodeStream(xPipeErr \o xToErr).ok) ~> (xPc = "returned")

-----------------------------------------------------------------------------
(* C5 *)

\* C5: when the adb binary cannot be launched, the call fails with an error;
\* it never returns text as if the command had run.
C5_AsStated == ~xAdb => xPc # "returned"

-----------------------------------------------------------------------------
(* run(cmd, timeout_sec): Popen, Timer(timeout_sec, p.kill), and            *)
(* try: timer.start(); communicate()  finally: timer.cancel(); return.      *)
(* Three threads of control: the caller, the Timer thread, the child.      *)

RunByte == {32, 97}

\* the calls of run() the environment can make fail, and the error of each
RunFaults == {"none", "popen", "timer_start", "communicate", "interrupt"}

FaultError(f) ==
    CASE f = "popen" -> "FileNotFoundError"
      [] f = "timer_start" -> "RuntimeError"
      [] f = "communicate" -> "OSError"
      [] f = "interrupt" -> "KeyboardInterrupt"
      [] OTHER -> "none"

RunInit ==
    /\ rPc = "start"
    /\ rFault \in RunFaults
    /\ rKind \in {"exits", "forever"}
    /\ rProc = "none"
    /\ rReaped = FALSE
    /\ rToOut \in SeqsUpTo(RunByte, MaxRunOut)
    /\ rToErr \in SeqsUpTo(RunByte, MaxRunOut)
    /\ rPipeOut = <<>>
    /\ rPipeErr = <<>>
    /\ rGotOut = <<>>
    /\ rGotErr = <<>>
    /\ rBound = FALSE
    /\ rInflight = "none"
    /\ rResult = NoResult
    /\ tState = "none"
    /\ tFinished = FALSE
    /\ tAfterExit = FALSE
    /\ FmtIdle /\ OutIdle /\ ExecIdle /\ DevIdle /\ SesIdle

\* lines 389-394: Popen(shlex.split(cmd), ...) raises when the executable
\* cannot be spawned, before the try block; otherwise the Timer is created
RunPopen ==
    /\ rPc = "start"
    /\ IF rFault = "popen"
       THEN /\ rPc' = "done"
            /\ rResult' = Raise(FaultError(rFault))
            /\ UNCHANGED <<rProc, tState>>
       ELSE /\ rPc' = "try"
            /\ rProc' = "running"
            /\ tState' = "new"
            /\ UNCHANGED rResult
    /\ UNCHANGED <<rFault, rKind, rReaped, rToOut, rToErr, rPipeOut, rPipeErr, rGotOut,
                   rGotErr, rBound, rInflight, tFinished, tAfterExit, notRun>>

\* line 396: timer.start()
RunTimerStart ==
    /\ rPc = "try"
    /\ IF rFault = "timer_start"
       THEN /\ rInflight' = FaultError(rFault)
            /\ rPc' = "finally"
            /\ UNCHANGED tState
       ELSE /\ tState' = "waiting"
            /\ rPc' = "communicate"
            /\ UNCHANGED rInflight
    /\ UNCHANGED <<rFault, rKind, rProc, rReaped, rToOut, rToErr, rPipeOut, rPipeErr,
                   rGotOut, rGotErr, rBound, rResult, tFinished, tAfterExit, notRun>>

\* line 397, inside communicate(): it reads what is in the stdout pipe
CommReadOut ==
    /\ rPc = "communicate"
    /\ rPipeOut # <<>>
    /\ rGotOut' = rGotOut \o rPipeOut
    /\ rPipeOut' = <<>>
    /\ UNCHANGED <<rPc, rFault, rKind, rProc, rReaped, rToOut, rToErr, rPipeErr, rGotErr,
                   rBound, rInflight, rResult, tState, tFinished, tAfterExit, notRun>>

\* line 397, inside communicate(): it reads what is in the stderr pipe
CommReadErr ==
    /\ rPc = "communicate"
    /\ rPipeErr # <<>>
    /\ rGotErr' = rGotErr \o rPipeErr
    /\ rPipeErr' = <<>>
    /\ UNCHANGED <<rPc, rFault, rKind, rProc, rReaped, rToOut, rToErr, rPipeOut, rGotOut,
                   rBound, rInflight, rResult, tState, tFinished, tAfterExit, notRun>>

\* line 397: communicate() raises; stdout and stderr stay unbound
CommFail ==
    /\ rPc = "communicate"
    /\ rFault = "communicate"
    /\ rInflight' = FaultError(rFault)
    /\ rPc' = "finally"
    /\ UNCHANGED <<rFault, rKind, rProc, rReaped, rToOut, rToErr, rPipeOut, rPipeErr,
                   rGotOut, rGotErr, rBound, rResult, tState, tFinished, tAfterExit, notRun>>

\* line 397: both pipes are at end of file (the child is dead and the pipes
\* are drained), communicate() reaps the child and stdout, stderr are bound;
\* an interrupt may arrive right after the assignment
CommReturn ==
    /\ rPc = "communicate"
    /\ rFault # "communicate"
    /\ rProc \in {"exited", "killed"}
    /\ rPipeOut = <<>>
    /\ rPipeErr = <<>>
    /\ rReaped' = TRUE
    /\ rBound' = TRUE
    /\ rInflight' = IF rFault = "interrupt" THEN FaultError(rFault) ELSE "none"
    /\ rPc' = "finally"
    /\ UNCHANGED <<rFault, rKind, rProc, rToOut, rToErr, rPipeOut, rPipeErr, rGotOut,
                   rGotErr, rResult, tState, tFinished, tAfterExit, notRun>>

\* line 400 evaluated in the finally block: an unbound stdout raises
\* UnboundLocalError; otherwise the return discards the exception in flight
FinallyReturn(bound, out, err) ==
    IF bound THEN RunResult(out, err) ELSE Raise("UnboundLocalError")

\* lines 398-400: timer.cancel(), then return stdout if stdout else stderr
RunFinally ==
    /\ rPc = "finally"
    /\ tFinished' = TRUE
    /\ rResult' = FinallyReturn(rBound, rGotOut, rGotErr)
    /\ rPc' = "done"
    /\ UNCHANGED <<rFault, rKind, rProc, rReaped, rToOut, rToErr, rPipeOut, rPipeErr,
                   rGotOut, rGotErr, rBound, rInflight, tState, tAfterExit, notRun>>

\* Timer.run: finished.wait(interval) times out and finished is not set
TimerElapse ==
    /\ tState = "waiting"
    /\ ~tFinished
    /\ tState' = "elapsed"
    /\ tAfterExit' = (rProc = "exited")
    /\ UNCHANGED <<rPc, rFault, rKind, rProc, rReaped, rToOut, rToErr, rPipeOut, rPipeErr,
                   rGotOut, rGotErr, rBound, rInflight, rResult, tFinished, notRun>>

\* Timer.run: finished was set by cancel(); the function is not called
TimerCancelled ==
    /\ tState = "waiting"
    /\ tFinished
    /\ tState' = "done"
    /\ UNCHANGED <<rPc, rFault, rKind, rProc, rReaped, rToOut, rToErr, rPipeOut, rPipeErr,
                   rGotOut, rGotErr, rBound, rInflight, rResult, tFinished, tAfterExit, notRun>>

\* a kill that sends a signal the child survives
KillProc_m(proc, reaped) == proc

\* line 394, lambda p: p.kill(): SIGKILL unless the child was already reaped
KillProc(proc, reaped) == IF ~reaped /\ proc = "running" THEN "killed" ELSE proc

\* Timer.run calls the function: p.kill()
TimerFire ==
    /\ tState = "elapsed"
    /\ rProc' = KillProc(rProc, rReaped)
    /\ tState' = "done"
    /\ tFinished' = TRUE
    /\ UNCHANGED <<rPc, rFault, rKind, rReaped, rToOut, rToErr, rPipeOut, rPipeErr,
                   rGotOut, rGotErr, rBound, rInflight, rResult, tAfterExit, notRun>>

\* the child writes a byte to stdout
RunChildWriteOut ==
    /\ rProc = "running"
    /\ rToOut # <<>>
    /\ Len(rPipeOut) < PipeCap
    /\ rPipeOut' = Append(rPipeOut, Head(rToOut))
    /\ rToOut' = Tail(rToOut)
    /\ UNCHANGED <<rPc, rFault, rKind, rProc, rReaped, rToErr, rPipeErr, rGotOut, rGotErr,
                   rBound, rInflight, rResult, tState, tFinished, tAfterExit, notRun>>

\* the child writes a byte to stderr
RunChildWriteErr ==
    /\ rProc = "running"
    /\ rToErr # <<>>
    /\ Len(rPipeErr) < PipeCap
    /\ rPipeErr' = Append(rPipeErr, Head(rToErr))
    /\ rToErr' = Tail(rToErr)
    /\ UNCHANGED <<rPc, rFault, rKind, rProc, rReaped, rToOut, rPipeOut, rGotOut, rGotErr,
                   rBound, rInflight, rResult, tState, tFinished, tAfterExit, notRun>>

\* a child that exits on its own does so once it has written everything
RunChildExit ==
    /\ rProc = "running"
    /\ rKind = "exits"
    /\ rToOut = <<>>
    /\ rToErr = <<>>
    /\ rProc' = "exited"
    /\ UNCHANGED <<rPc, rFault, rKind, rReaped, rToOut, rToErr, rPipeOut, rPipeErr,
                   rGotOut, rGotErr, rBound, rInflight, rResult, tState, tFinished,
                   tAfterExit, notRun>>

RunCaller ==
    RunPopen \/ RunTimerStart \/ CommReadOut \/ CommReadErr \/ CommFail \/ CommReturn
    \/ RunFinally
RunTimer == TimerElapse \/ TimerCancelled \/ TimerFire
RunChild == RunChildWriteOut \/ RunChildWriteErr \/ RunChildExit

RunNext ==
    \/ RunPopen \/ RunTimerStart \/ CommReadOut \/ CommReadErr \/ CommFail
    \/ CommReturn \/ RunFinally
    \/ TimerElapse \/ TimerCancelled \/ TimerFire
    \/ RunChildWriteOut \/ RunChildWriteErr \/ RunChildExit

SpecRun == RunInit /\ [][RunNext]_vars

\* the caller, the Timer thread and the child are all scheduled, and the
\* timeout elapses after finitely long
FairRun == SpecRun /\ WF_vars(RunCaller) /\ WF_vars(RunTimer) /\ WF_vars(RunChild)

-----------------------------------------------------------------------------
(* C1 *)

\* C1: for a child that never exits on its own (and no failing call), the
\* Timer's function kills the running child, and run() then eventually
\* returns what was captured of stdout/stderr, without raising.
C1_TimeoutKillsAndReturns ==
    /\ [][(tState = "elapsed" /\ tState' = "done" /\ rProc = "running")
            => rProc' = "killed"]_vars
    /\ (rKind = "forever" /\ rFault = "none" /\ rPc = "communicate")
          ~> (/\ rPc = "done"
              /\ rProc = "killed"
              /\ rResult = Return(Select(rGotOut, rGotErr)))

\* run() has returned the partial output of a killed child that never exits:
\* its stdout was captured, its stderr was never written
C1_Witness ==
    /\ rKind = "forever"
    /\ rFault = "none"
    /\ rPc = "done"
    /\ rProc = "killed"
    /\ rResult = Return(<<97>>)
    /\ rToErr # <<>>

-----------------------------------------------------------------------------
(* C3 *)

\* C3: on the normal-completion path the timer is cancelled once run() is
\* done, and the Timer's function is never executed after run() has returned.
C3_AsStated ==
    /\ []((rPc = "done" /\ rProc = "exited") => tFinished)
    /\ [][(rPc = "done" /\ rProc = "exited" /\ (tState = "elapsed" => tAfterExit))
            => ~(tState = "elapsed" /\ tState' = "done")]_vars

-----------------------------------------------------------------------------
(* C9 *)

\* C9: an error raised inside run() after the spawn (by timer.start() or
\* while collecting the output) is the error the caller of run() observes.
C9_AsStated ==
    (rPc = "done" /\ rFault \in {"timer_start", "communicate", "interrupt"})
        => rResult = Raise(FaultError(rFault))

-----------------------------------------------------------------------------
(* get_connected_device_list: re.findall(r"\b(\w+)\sdevice\b", text).       *)
(* The text is a sequence of symbols: "a" stands for a word character,     *)
(* "-" for a character that is neither a word character nor whitespace,    *)
(* " " and "\n" for whitespace, and "device" for the six letters of that   *)
(* word.                                                                    *)

DevSymbols == {"a", "-", " ", "\n", "device"}
WordSymbols == {"a", "device"}          \* \w
SpaceSymbols == {" ", "\n"}             \* \s

IsWord(t, i) == i \in 1..Len(t) /\ t[i] \in WordSymbols

\* \b between the symbols i-1 and i
Boundary(t, i) == IsWord(t, i - 1) # IsWord(t, i)

\* the lengths k with which (\w+) can match at i so that \sdevice\b follows
GroupLengths(t, i) ==
    {k \in 1..Len(t) :
        /\ \A j \in i..(i + k - 1) : IsWord(t, j)
        /\ i + k + 1 <= Len(t)
        /\ t[i + k] \in SpaceSymbols
        /\ t[i + k + 1] = "device"
        /\ Boundary(t, i + k + 2)}

Longest(S) == CHOOSE k \in S : \A m \in S : m <= k

\* re.findall: scan from the left; at each position the leftmost match, the
\* group taken greedily; the scan goes on after the end of the match
RECURSIVE FindAllFrom(_, _)
FindAllFrom(t, i) ==
    IF i > Len(t) THEN <<>>
    ELSE IF Boundary(t, i) /\ GroupLengths(t, i) # {}
         THEN LET k == Longest(GroupLengths(t, i))
              IN <<SubSeq(t, i, i + k - 1)>> \o FindAllFrom(t, i + k + 2)
         ELSE FindAllFrom(t, i + 1)

\* line 244
FindAll(t) == FindAllFrom(t, 1)

DevInit ==
    /\ dText \in {t \in SeqsUpTo(DevSymbols, MaxText) : Strip(t, SpaceSymbols) = t}
    /\ dNames = <<>>
    /\ dPc = "new"
    /\ FmtIdle /\ OutIdle /\ ExecIdle /\ RunIdle /\ SesIdle

\* lines 243-245
ListDevices ==
    /\ dPc = "new"
    /\ dNames' = FindAll(dText)
    /\ dPc' = "done"
    /\ UNCHANGED <<dText, notDev>>

DevNext == ListDevices

SpecDevices == DevInit /\ [][DevNext]_vars

-----------------------------------------------------------------------------
(* C7 *)

\* the lines of a text
RECURSIVE SplitLines(_)
SplitLines(t) ==
    IF \A i \in 1..Len(t) : t[i] # "\n" THEN <<t>>
    ELSE LET n == CHOOSE i \in 1..Len(t) : t[i] = "\n" /\ \A j \in 1..(i - 1) : t[j] # "\n"
         IN <<SubSeq(t, 1, n - 1)>> \o SplitLines(SubSeq(t, n + 1, Len(t)))

\* the identifier of a line <identifier><whitespace>device: the identifier
\* starts with a word character and holds no whitespace; <<>> for other lines
LineIdentifier(line) ==
    LET ks == {k \in 1..Len(line) :
                  /\ line[1] \in WordSymbols
                  /\ \A j \in 1..k : line[j] \notin SpaceSymbols
                  /\ k + 2 <= Len(line)
                  /\ \A j \in (k + 1)..(Len(line) - 1) : line[j] \in SpaceSymbols
                  /\ line[Len(line)] = "device"}
    IN IF ks = {} THEN <<>> ELSE <<SubSeq(line, 1, CHOOSE k \in ks : TRUE)>>

RECURSIVE Identifiers(_)
Identifiers(lines) ==
    IF lines = <<>> THEN <<>>
    ELSE LineIdentifier(Head(lines)) \o Identifiers(Tail(lines))

\* an optional header line (one that does not end in the word device)
\* followed by lines <identifier><whitespace>device
EnumerationOutput(t) ==
    LET lines == SplitLines(t)
        first == lines[1]
    IN /\ \/ LineIdentifier(first) # <<>>
          \/ first = <<>>
          \/ first[Len(first)] # "device"
       /\ \A n \in 2..Len(lines) : LineIdentifier(lines[n]) # <<>>

\* C7: given an optional header line followed by lines of the form
\* <identifier><whitespace>device, get_connected_device_list returns exactly
\* the identifiers of those lines, each in full and in order.
C7_AsStated ==
    (dPc = "done" /\ EnumerationOutput(dText))
        => dNames = Identifiers(SplitLines(dText))

-----------------------------------------------------------------------------
(* The session: __init__, enable_ime (with install_adb_keyboard),           *)
(* recover_ime and the other methods, one step per command sent, and the   *)
(* device that executes the commands.                                       *)

AdbKeyboard == "adbkeyboard"           \* com.android.adbkeyboard/.AdbIME
Imes == {"latin", AdbKeyboard}

\* what every call of shell()/cmd() reads of self (lines 41, 52 and 62)
ShellReads == {"device_id", "debug"}

\* the methods that send commands and touch no input method
OtherOps == {"cmd", "shell", "tap", "swipe_left", "send_key_event", "send_text",
             "screenshot", "get_connected_device_list"}

\* device: "settings get secure default_input_method"; a failing command
\* returns the error text instead
DeviceGetIme(ok) == IF ok THEN devIme ELSE "error"

\* device: "ime set x" takes effect when the command arrives and x is enabled
ImeSetTakes(x, ok) == ok /\ x \in devEnabled
DeviceImeSet(x, ok) == IF ImeSetTakes(x, ok) THEN x ELSE devIme

\* device: "pm list packages com.android.adbkeyboard", the text is_install_app
\* returns (non-empty also when the command fails: the error text)
DevicePmList(ok) == IF ~ok THEN "error" ELSE IF devInstalled THEN "package" ELSE ""

SesInit ==
    /\ sPc = "new"
    /\ sArgId \in {<<>>, <<"a">>}
    /\ sArgDebug \in BOOLEAN
    /\ device_id = <<>>
    /\ debug = TRUE
    /\ default_ime = ""
    /\ sQueries = 0
    /\ sOp = ""
    /\ sReads = {}
    /\ recoverLog = ""
    /\ devInstalled \in BOOLEAN
    /\ devEnabled \in {S \in SUBSET Imes : AdbKeyboard \in S => devInstalled}
    /\ devIme \in devEnabled \cup {"null"}
    /\ apkLocal \in BOOLEAN
    /\ disturbed = FALSE
    /\ switched = FALSE
    /\ FmtIdle /\ OutIdle /\ ExecIdle /\ RunIdle /\ DevIdle

\* __init__, lines 25-29
InitFields ==
    /\ sPc = "new"
    /\ device_id' = InitDeviceId(sArgId)
    /\ debug' = sArgDebug
    /\ sPc' = "query"
    /\ sOp' = "__init__"
    /\ sReads' = {}
    /\ UNCHANGED <<sArgId, sArgDebug, default_ime, sQueries, recoverLog, devIme,
                   devEnabled, devInstalled, apkLocal, disturbed, switched, notSes>>

\* __init__, lines 30-31: self.default_ime = self.get_current_ime(), logged
InitQuery ==
    /\ sPc = "query"
    /\ \E ok \in BOOLEAN :
        /\ default_ime' = DeviceGetIme(ok)
        /\ disturbed' = (disturbed \/ ~ok)
    /\ sQueries' = sQueries + 1
    /\ sPc' = "ready"
    /\ sOp' = "__init__"
    /\ sReads' = ShellReads \cup {"default_ime"}
    /\ UNCHANGED <<sArgId, sArgDebug, device_id, debug, recoverLog, devIme, devEnabled,
                   devInstalled, apkLocal, switched, notSes>>

\* enable_ime -> install_adb_keyboard, line 322: is_install_app
EnableImeCheck ==
    /\ sPc = "ready"
    /\ \E ok \in BOOLEAN :
        /\ sPc' = IF DevicePmList(ok) # "" THEN "en_enable" ELSE "en_install"
        /\ disturbed' = (disturbed \/ ~ok)
    /\ sOp' = "enable_ime"
    /\ sReads' = ShellReads
    /\ UNCHANGED <<sArgId, sArgDebug, device_id, debug, default_ime, sQueries, recoverLog,
                   devIme, devEnabled, devInstalled, apkLocal, switched, notSes>>

\* install_adb_keyboard, lines 323-327: download the apk if it is not there,
\* then cmd("install ADBKeyBoard.apk")
EnableImeInstall ==
    /\ sPc = "en_install"
    /\ \E got \in BOOLEAN, ok \in BOOLEAN :
        /\ apkLocal' = (apkLocal \/ got)
        /\ devInstalled' = (devInstalled \/ (ok /\ apkLocal'))
        /\ disturbed' = (disturbed \/ ~ok \/ ~apkLocal')
    /\ sPc' = "en_verify"
    /\ sOp' = "enable_ime"
    /\ sReads' = ShellReads
    /\ UNCHANGED <<sArgId, sArgDebug, device_id, debug, default_ime, sQueries, recoverLog,
                   devIme, devEnabled, switched, notSes>>

\* install_adb_keyboard, lines 328-332: is_install_app again; os.remove of
\* the apk raises when the file is not there, which ends enable_ime
EnableImeVerify ==
    /\ sPc = "en_verify"
    /\ \E ok \in BOOLEAN :
        IF DevicePmList(ok) # ""
        THEN /\ apkLocal' = FALSE
             /\ sPc' = IF apkLocal THEN "en_enable" ELSE "ready"
             /\ disturbed' = (disturbed \/ ~ok \/ ~apkLocal)
        ELSE /\ sPc' = "en_enable"
             /\ disturbed' = (disturbed \/ ~ok)
             /\ UNCHANGED apkLocal
    /\ sOp' = "enable_ime"
    /\ sReads' = ShellReads
    /\ UNCHANGED <<sArgId, sArgDebug, device_id, debug, default_ime, sQueries, recoverLog,
                   devIme, devEnabled, devInstalled, switched, notSes>>

\* enable_ime, line 143: shell("ime enable com.android.adbkeyboard/.AdbIME")
EnableImeEnable ==
    /\ sPc = "en_enable"
    /\ \E ok \in BOOLEAN :
        /\ devEnabled' = IF ok /\ devInstalled THEN devEnabled \cup {AdbKeyboard}
                         ELSE devEnabled
        /\ disturbed' = (disturbed \/ ~(ok /\ devInstalled))
    /\ sPc' = "en_set"
    /\ sOp' = "enable_ime"
    /\ sReads' = ShellReads
    /\ UNCHANGED <<sArgId, sArgDebug, device_id, debug, default_ime, sQueries, recoverLog,
                   devIme, devInstalled, apkLocal, switched, notSes>>

\* enable_ime that also captures the input method it has just set
EnableImeSet_m ==
    /\ sPc = "en_set"
    /\ \E ok \in BOOLEAN :
        /\ devIme' = DeviceImeSet(AdbKeyboard, ok)
        /\ default_ime' = devIme'
        /\ disturbed' = (disturbed \/ ~ImeSetTakes(AdbKeyboard, ok))
        /\ switched' = (switched \/ ImeSetTakes(AdbKeyboard, ok))
    /\ sPc' = "ready"
    /\ sOp' = "enable_ime"
    /\ sReads' = ShellReads
    /\ UNCHANGED <<sArgId, sArgDebug, device_id, debug, sQueries, recoverLog,
                   devEnabled, devInstalled, apkLocal, notSes>>

\* enable_ime, line 144: shell("ime set com.android.adbkeyboard/.AdbIME")
EnableImeSet ==
    /\ sPc = "en_set"
    /\ \E ok \in BOOLEAN :
        /\ devIme' = DeviceImeSet(AdbKeyboard, ok)
        /\ disturbed' = (disturbed \/ ~ImeSetTakes(AdbKeyboard, ok))
        /\ switched' = (switched \/ ImeSetTakes(AdbKeyboard, ok))
    /\ sPc' = "ready"
    /\ sOp' = "enable_ime"
    /\ sReads' = ShellReads
    /\ UNCHANGED <<sArgId, sArgDebug, device_id, debug, default_ime, sQueries, recoverLog,
                   devEnabled, devInstalled, apkLocal, notSes>>

\* recover_ime that never sends the "ime set" command
RecoverImeSet_m ==
    /\ sPc = "ready"
    /\ sPc' = "rc_query"
    /\ sOp' = "recover_ime"
    /\ sReads' = ShellReads \cup {"default_ime"}
    /\ UNCHANGED <<sArgId, sArgDebug, device_id, debug, default_ime, sQueries, recoverLog,
                   devIme, devEnabled, devInstalled, apkLocal, disturbed, switched, notSes>>

\* recover_ime, line 158: shell("ime set {}".format(self.default_ime))
RecoverImeSet ==
    /\ sPc = "ready"
    /\ \E ok \in BOOLEAN :
        /\ devIme' = DeviceImeSet(default_ime, ok)
        /\ disturbed' = (disturbed \/ ~ImeSetTakes(default_ime, ok))
    /\ sPc' = "rc_query"
    /\ sOp' = "recover_ime"
    /\ sReads' = ShellReads \cup {"default_ime"}
    /\ UNCHANGED <<sArgId, sArgDebug, device_id, debug, default_ime, sQueries, recoverLog,
                   devEnabled, devInstalled, apkLocal, switched, notSes>>

\* recover_ime, lines 159-164: query again, compare, log info or error
RecoverImeQuery ==
    /\ sPc = "rc_query"
    /\ \E ok \in BOOLEAN :
        /\ recoverLog' = IF DeviceGetIme(ok) = default_ime THEN "info" ELSE "error"
        /\ disturbed' = (disturbed \/ ~ok)
    /\ sPc' = "ready"
    /\ sOp' = "recover_ime"
    /\ sReads' = ShellReads \cup {"default_ime"}
    /\ UNCHANGED <<sArgId, sArgDebug, device_id, debug, default_ime, sQueries, devIme,
                   devEnabled, devInstalled, apkLocal, switched, notSes>>

\* cmd, shell, the gestures, the queries, enumeration: a command is sent, no
\* field of self is written
OtherCall ==
    /\ sPc = "ready"
    /\ \E op \in OtherOps, ok \in BOOLEAN :
        /\ sOp' = op
        /\ sReads' = IF op = "get_connected_device_list" THEN {"debug"} ELSE ShellReads
        /\ disturbed' = (disturbed \/ ~ok)
    /\ UNCHANGED <<sPc, sArgId, sArgDebug, device_id, debug, default_ime, sQueries,
                   recoverLog, devIme, devEnabled, devInstalled, apkLocal, switched,
                   notSes>>

\* somebody else switches the device's input method
ExternalChange ==
    /\ sPc # "new"
    /\ \E x \in devEnabled \ {devIme} : devIme' = x
    /\ disturbed' = TRUE
    /\ UNCHANGED <<sPc, sArgId, sArgDebug, device_id, debug, default_ime, sQueries, sOp,
                   sReads, recoverLog, devEnabled, devInstalled, apkLocal, switched,
                   notSes>>

SesNext ==
    \/ InitFields \/ InitQuery
    \/ EnableImeCheck \/ EnableImeInstall \/ EnableImeVerify \/ EnableImeEnable
    \/ EnableImeSet
    \/ RecoverImeSet \/ RecoverImeQuery
    \/ OtherCall
    \/ ExternalChange

SpecSession == SesInit /\ [][SesNext]_vars

-----------------------------------------------------------------------------
(* C8 *)

\* C8: when no command has failed and nobody else has changed the device
\* since construction, recover_ime ends with the device's input method equal
\* to the captured one and takes its success branch, also after enable_ime
\* of this session switched the input method.
C8_RoundTrip ==
    (sPc = "ready" /\ sOp = "recover_ime" /\ ~disturbed)
        => (recoverLog = "info" /\ devIme = default_ime)

\* recover_ime has completed undisturbed after enable_ime had switched the
\* input method away from the captured one
C8_Witness ==
    /\ sPc = "ready"
    /\ sOp = "recover_ime"
    /\ ~disturbed
    /\ switched
    /\ default_ime = "latin"
    /\ devIme = "latin"
    /\ recoverLog = "info"

-----------------------------------------------------------------------------
(* C10 *)

Constructed == sPc \notin {"new", "query"}

\* C10: once construction is complete no step of any method changes
\* device_id, debug or default_ime; the constructor has made exactly one
\* input-method query; and after construction only recover_ime reads
\* default_ime.
C10_WriteOnce ==
    /\ [][Constructed => (/\ device_id' = device_id
                          /\ debug' = debug
                          /\ default_ime' = default_ime)]_vars
    /\ [](Constructed => sQueries = 1)
    /\ []((Constructed /\ sOp # "__init__" /\ "default_ime" \in sReads)
            => sOp = "recover_ime")

\* enable_ime of this session has switched the device away from the captured
\* input method, and the captured value is still the one of construction
C10_Witness ==
    /\ sPc = "ready"
    /\ sOp = "enable_ime"
    /\ switched
    /\ ~disturbed
    /\ default_ime = "latin"
    /\ devIme = AdbKeyboard

====
